---- MODULE Spec2Model ----
(***************************************************************************)
(* Model of the Nephyra kernel assistant (src/src/modules/kernel_check.rs): *)
(* the preference store (load_prefs / save_prefs), the context probes, the  *)
(* kernel catalog, the scoring function and the ranking of one or more      *)
(* invocations of run().                                                    *)
(*                                                                          *)
(* Strings are TLA+ strings; Option<T> is a sequence of length 0 (None) or  *)
(* 1 (Some); Vec<T> is a sequence.                                          *)
(***************************************************************************)
EXTENDS Integers, Sequences, FiniteSets, TLC

VARIABLES
    run,                \* number of the invocation of run() (1-based)
    pc,                 \* position of the current invocation inside run()
    disk,               \* $HOME/.config/nephyra/config.toml
    sysinfo,            \* SystemInfo { current_kernel, package_manager }
    prefs,              \* the local `prefs` of run()
    detected_gpu,       \* the local `detected_gpu`
    detected_use_cases, \* the local `detected_use_cases`
    nvidia,             \* the local `nvidia`
    audio,              \* the local `audio`
    installed_kernels,  \* the local `installed_kernels`
    all_kernels,        \* the local `all_kernels`
    scored_kernels,     \* the local `scored_kernels`
    top_kernels,        \* the local `top_kernels`
    output,             \* the recommendations printed by the render loop
    hist,               \* history of the invocation: what load returned, how save ended
    eval                \* one call of score_and_reason_kernel made outside run()

vars == <<run, pc, disk, sysinfo, prefs, detected_gpu, detected_use_cases, nvidia,
          audio, installed_kernels, all_kernels, scored_kernels, top_kernels,
          output, hist, eval>>

runVars == <<run, pc, disk, sysinfo, prefs, detected_gpu, detected_use_cases, nvidia,
             audio, installed_kernels, all_kernels, scored_kernels, top_kernels,
             output, hist>>

-----------------------------------------------------------------------------
(* Bounds of the model *)

\* invocations of run() in one behaviour
MaxRuns == 2

\* pieces of a kernel name handed to detect_kernel_variant
MaxNameParts == 3

-----------------------------------------------------------------------------
(* Strings *)

None == <<>>
Some(v) == <<v>>

UpperAlphabet == "ABCDEFGHIJKLMNOPQRSTUVWXYZ"
LowerAlphabet == "abcdefghijklmnopqrstuvwxyz"

UpperChars == {SubSeq(UpperAlphabet, i, i) : i \in 1..Len(UpperAlphabet)}
LowerChars == {SubSeq(LowerAlphabet, i, i) : i \in 1..Len(LowerAlphabet)}

\* char::to_lowercase on the characters the model uses (ASCII)
LowerChar(c) ==
    IF c \in UpperChars
    THEN LET i == CHOOSE j \in 1..Len(UpperAlphabet) : SubSeq(UpperAlphabet, j, j) = c
         IN  SubSeq(LowerAlphabet, i, i)
    ELSE c

RECURSIVE to_lowercase(_)
\* str::to_lowercase / str::to_ascii_lowercase
to_lowercase(s) ==
    IF Len(s) = 0 THEN ""
    ELSE IF Len(s) = 1 THEN LowerChar(s)
    ELSE LET h == Len(s) \div 2 IN
         to_lowercase(SubSeq(s, 1, h)) \o to_lowercase(SubSeq(s, h + 1, Len(s)))

\* str::contains(pattern)
Contains(s, p) ==
    \E i \in 1..(Len(s) - Len(p) + 1) : SubSeq(s, i, i + Len(p) - 1) = p

\* str::starts_with(prefix)
StartsWith(s, p) == Len(p) <= Len(s) /\ SubSeq(s, 1, Len(p)) = p

\* char::is_alphabetic on the characters the model uses (ASCII)
IsAlphabetic(c) == c \in UpperChars \/ c \in LowerChars

\* position of the first occurrence of the pattern p in s, 0 when there is none
Find(s, p) ==
    IF Contains(s, p)
    THEN CHOOSE i \in 1..(Len(s) - Len(p) + 1) :
            /\ SubSeq(s, i, i + Len(p) - 1) = p
            /\ \A j \in 1..(i - 1) : SubSeq(s, j, j + Len(p) - 1) # p
    ELSE 0

RECURSIVE Split(_, _)
\* str::split(c) for a one-character separator
Split(s, c) ==
    LET i == Find(s, c) IN
    IF i = 0 THEN <<s>>
    ELSE <<SubSeq(s, 1, i - 1)>> \o Split(SubSeq(s, i + 1, Len(s)), c)

\* str::split_whitespace: the non-empty pieces between spaces
SplitWhitespace(s) == SelectSeq(Split(s, " "), LAMBDA t : t # "")

RECURSIVE Concat(_, _)
\* the pieces one behind the other, without the separator
Concat(seq, sep) ==
    IF Len(seq) = 0 THEN ""
    ELSE seq[1] \o Concat(Tail(seq), sep)

RECURSIVE Join(_, _)
\* [&str]::join(sep)
Join(seq, sep) ==
    IF Len(seq) = 0 THEN ""
    ELSE IF Len(seq) = 1 THEN seq[1]
    ELSE seq[1] \o sep \o Join(Tail(seq), sep)

RECURSIVE Replace(_, _, _)
\* str::replace(pat, to) for a non-empty pattern
Replace(s, pat, to) ==
    LET i == Find(s, pat) IN
    IF i = 0 THEN s
    ELSE SubSeq(s, 1, i - 1) \o to \o Replace(SubSeq(s, i + Len(pat), Len(s)), pat, to)

-----------------------------------------------------------------------------
(* Preference store *)

\* #[derive(Default)] NephyraPrefs
NephyraPrefsDefault ==
    [preferred_kernel |-> None, gpu_type |-> None, use_cases |-> <<>>]

\* The content of a configuration file as the TOML parser sees it: `valid` is
\* whether the text is well-formed TOML, the other fields are the keys it holds
\* (has_use_cases: the key use_cases is present; problematic_kernels: a key the
\* struct NephyraPrefs does not declare).
TomlDoc(valid, pk, gpu, hasuc, uc, prob) ==
    [valid |-> valid, preferred_kernel |-> pk, gpu_type |-> gpu,
     has_use_cases |-> hasuc, use_cases |-> uc, problematic_kernels |-> prob]

EmptyDoc == TomlDoc(TRUE, None, None, FALSE, <<>>, <<>>)

DiskAbsent == [kind |-> "absent"]
DiskNoPerm == [kind |-> "noperm"]       \* File::open fails, the file exists
DiskBinary == [kind |-> "binary"]       \* read_to_string fails (not UTF-8)
DiskFile(doc) == [kind |-> "file", doc |-> doc]

\* toml::from_str::<NephyraPrefs>: Err on malformed text and on a missing
\* use_cases key (Vec<String> has no serde default); Option fields default to
\* None; undeclared keys are ignored.
from_str(doc) ==
    IF doc.valid /\ doc.has_use_cases
    THEN [ok |-> TRUE,
          value |-> [preferred_kernel |-> doc.preferred_kernel,
                     gpu_type |-> doc.gpu_type,
                     use_cases |-> doc.use_cases]]
    ELSE [ok |-> FALSE, value |-> NephyraPrefsDefault]

\* Result::unwrap_or_default
unwrap_or_default(r) == IF r.ok THEN r.value ELSE NephyraPrefsDefault

\* toml::to_string_pretty(prefs): None fields are left out, use_cases is
\* always written
to_string_pretty(p) ==
    TomlDoc(TRUE, p.preferred_kernel, p.gpu_type, TRUE, p.use_cases, <<>>)

\* a lenient reader: takes whatever keys the text holds
load_prefs_lenient(d) ==
    IF d.kind = "file"
    THEN [preferred_kernel |-> d.doc.preferred_kernel,
          gpu_type |-> d.doc.gpu_type,
          use_cases |-> d.doc.use_cases]
    ELSE NephyraPrefsDefault

load_prefs(d) ==
    IF d.kind = "file"
    THEN unwrap_or_default(from_str(d.doc))
    ELSE NephyraPrefsDefault

\* What a write_all that fails part-way leaves in the truncated file: nothing,
\* or the keys that precede use_cases.
TornDocs(p) ==
    {EmptyDoc, TomlDoc(TRUE, p.preferred_kernel, p.gpu_type, FALSE, <<>>, <<>>)}

\* a save that unwraps the result of File::create
save_prefs_unwrap(d, p, outcome, torn) ==
    [disk |-> IF outcome = "ok" THEN DiskFile(to_string_pretty(p)) ELSE d,
     panicked |-> outcome # "ok"]

\* save_prefs(&prefs): outcome is what the file system does (File::create
\* fails; File::create truncates and write_all succeeds; write_all fails and
\* leaves `torn`). Every error is dropped.
save_prefs(d, p, outcome, torn) ==
    [disk |-> CASE outcome = "ok" -> DiskFile(to_string_pretty(p))
                [] outcome = "create_failed" -> d
                [] outcome = "write_failed" -> DiskFile(torn),
     panicked |-> FALSE]

\* a merge that always takes what was detected
MergeDetected(p, gpu, uc) == [p EXCEPT !.gpu_type = gpu, !.use_cases = uc]

\* a merge that is left out
MergeKeep(p, gpu, uc) == p

\* a merge that extends use_cases instead of filling it when empty
MergeExtend(p, gpu, uc) ==
    [p EXCEPT !.gpu_type = IF p.gpu_type = None THEN gpu ELSE @,
              !.use_cases = @ \o uc]

\* run(): "Use detected values unless user has set preferences"
Merge(p, gpu, uc) ==
    [p EXCEPT !.gpu_type = IF p.gpu_type = None THEN gpu ELSE @,
              !.use_cases = IF p.use_cases = <<>> THEN uc ELSE @]

-----------------------------------------------------------------------------
(* Context probes *)

\* str::trim on the whitespace the model uses
IsSpace(c) == c = " " \/ c = "\n"

RECURSIVE TrimStart(_)
TrimStart(s) ==
    IF Len(s) > 0 /\ IsSpace(SubSeq(s, 1, 1)) THEN TrimStart(SubSeq(s, 2, Len(s))) ELSE s

RECURSIVE TrimEnd(_)
TrimEnd(s) ==
    IF Len(s) > 0 /\ IsSpace(SubSeq(s, Len(s), Len(s)))
    THEN TrimEnd(SubSeq(s, 1, Len(s) - 1)) ELSE s

Trim(s) == TrimEnd(TrimStart(s))

\* detect_package_manager: `found` is the set of names `which` resolves
PmCandidates == <<"pacman", "apt", "dnf", "apk", "zypper", "emerge">>

detect_package_manager(found) ==
    IF \E i \in 1..Len(PmCandidates) : PmCandidates[i] \in found
    THEN LET i == CHOOSE j \in 1..Len(PmCandidates) :
                      /\ PmCandidates[j] \in found
                      /\ \A h \in 1..(j - 1) : PmCandidates[h] \notin found
         IN  Some(PmCandidates[i])
    ELSE None

\* SystemInfo::gather: uname is None when the command cannot be run (the
\* .expect panics), else Some(stdout)
SystemInfoGather(uname, found) ==
    IF uname = None
    THEN [panicked |-> TRUE,
          value |-> [current_kernel |-> "", package_manager |-> None]]
    ELSE [panicked |-> FALSE,
          value |-> [current_kernel |-> Trim(uname[1]),
                     package_manager |-> detect_package_manager(found)]]

\* detect_gpu_type: lspci is None when the command cannot be run
detect_gpu_type(lspci) ==
    IF lspci = None THEN None
    ELSE LET l == to_lowercase(lspci[1]) IN
         IF Contains(l, "nvidia") THEN Some("nvidia")
         ELSE IF Contains(l, "amd") \/ Contains(l, "ati") THEN Some("amd")
         ELSE IF Contains(l, "intel") THEN Some("intel")
         ELSE IF Contains(l, "integrated") THEN Some("integrated")
         ELSE None

\* an inference without the final default
InferNoDefault(found) ==
    LET tag(names, t) == IF names \cap found # {} THEN <<t>> ELSE <<>>
    IN  tag({"ardour", "jackd"}, "audio")
        \o tag({"gcc", "clang", "rustc"}, "dev")
        \o tag({"steam"}, "gaming")
        \o tag({"nginx", "apache2", "httpd"}, "server")
        \o tag({"firejail", "apparmor_status"}, "security")

\* the tools infer_use_cases looks for
MarkerTools ==
    {"ardour", "jackd", "gcc", "clang", "rustc", "steam", "nginx", "apache2", "httpd",
     "firejail", "apparmor_status"}

\* infer_use_cases: `found` is the set of names `which` resolves
infer_use_cases(found) ==
    LET tag(names, t) == IF names \cap found # {} THEN <<t>> ELSE <<>>
        uc == tag({"ardour", "jackd"}, "audio")
              \o tag({"gcc", "clang", "rustc"}, "dev")
              \o tag({"steam"}, "gaming")
              \o tag({"nginx", "apache2", "httpd"}, "server")
              \o tag({"firejail", "apparmor_status"}, "security")
    IN  IF uc = <<>> THEN <<"desktop">> ELSE uc

\* detect_nvidia: lsmod is None when the command cannot be run
detect_nvidia(lsmod) == lsmod # None /\ Contains(lsmod[1], "nvidia")

\* detect_audio_hw
detect_audio_hw(lspci) == lspci # None /\ Contains(to_lowercase(lspci[1]), "audio")

-----------------------------------------------------------------------------
(* Kernel catalog *)

\* a classification that tests the LTS marker before the real-time markers
VariantLtsFirst(name) ==
    LET lower == to_lowercase(name) IN
    IF Contains(lower, "lts") THEN "LTS"
    ELSE IF Contains(lower, "rt") \/ Contains(lower, "real") THEN "Real-Time"
    ELSE IF Contains(lower, "zen") THEN "Zen"
    ELSE IF Contains(lower, "hardened") THEN "Hardened"
    ELSE IF Contains(lower, "mainline") THEN "Mainline"
    ELSE "Standard"

\* detect_kernel_variant
detect_kernel_variant(name) ==
    LET lower == to_lowercase(name) IN
    IF Contains(lower, "rt") \/ Contains(lower, "real") THEN "Real-Time"
    ELSE IF Contains(lower, "lts") THEN "LTS"
    ELSE IF Contains(lower, "zen") THEN "Zen"
    ELSE IF Contains(lower, "hardened") THEN "Hardened"
    ELSE IF Contains(lower, "mainline") THEN "Mainline"
    ELSE "Standard"

\* kernel_package_name
kernel_package_name(kernel_version) ==
    IF \E i \in 1..Len(kernel_version) : IsAlphabetic(SubSeq(kernel_version, i, i))
    THEN LET pos == CHOOSE i \in 1..Len(kernel_version) :
                       /\ IsAlphabetic(SubSeq(kernel_version, i, i))
                       /\ \A j \in 1..(i - 1) : ~IsAlphabetic(SubSeq(kernel_version, j, j))
         IN  "linux-" \o SubSeq(kernel_version, pos, Len(kernel_version))
    ELSE "linux-" \o kernel_version

\* the text of run()'s `pacman_output` literal, as str::lines yields it
pacman_output ==
    << "",
       "cachyos-v3/linux-cachyos-eevdf-lto 6.15.3-1 [installed] The Linux EEVDF scheduler + Cachy Sauce Kernel by CachyOS with other patches and improvements kernel and modules",
       "system/linux 6.15.2.artix1-1 The Linux kernel and modules",
       "system/linux-lts 6.12.32-1 The LTS Linux kernel and modules",
       "galaxy/linux-hardened 6.14.9.hardened1-1 The Security-Hardened Linux kernel and modules",
       "galaxy/linux-rt 6.14.0.rt3.artix1-1 The Linux RT kernel and modules",
       "galaxy/linux-zen 6.15.2.zen1-1 The Linux ZEN kernel and modules" >>

\* one line of parse_pacman_kernel_list: the KernelRepoInfo it pushes, if any
ParseLine(line) ==
    LET parts == SplitWhitespace(line) IN
    IF Len(parts) < 2 THEN <<>>
    ELSE LET repo_split == Split(parts[1], "/") IN
         IF Len(repo_split) # 2 THEN <<>>
         ELSE << [name |-> repo_split[2],
                  version |-> parts[2],
                  description |->
                      Trim(Replace(Join(SubSeq(parts, 3, Len(parts)), " "),
                                   "[installed]", "")),
                  _repo |-> repo_split[1]] >>

RECURSIVE parse_pacman_kernel_list(_)
\* parse_pacman_kernel_list over the lines of the listing
parse_pacman_kernel_list(lines) ==
    IF Len(lines) = 0 THEN <<>>
    ELSE ParseLine(lines[1]) \o parse_pacman_kernel_list(Tail(lines))

\* pacman -Qi / -Si output as from_pacman_output reads it: the value of a key,
\* trimmed, of the last line "key : value" of the output; "" when there is none
RECURSIVE FieldOf(_, _, _)
FieldOf(lines, key, dflt) ==
    IF Len(lines) = 0 THEN dflt
    ELSE LET line == lines[Len(lines)]
             i == Find(line, ":")
         IN  IF i > 0 /\ Trim(SubSeq(line, 1, i - 1)) = key
             THEN Some(Trim(SubSeq(line, i + 1, Len(line))))
             ELSE FieldOf(SubSeq(lines, 1, Len(lines) - 1), key, dflt)

\* DetailedKernelInfo::from_pacman_output (the fields run() reads)
from_pacman_output(lines) ==
    LET str(key) == LET f == FieldOf(lines, key, None) IN
                    IF f = None THEN "" ELSE f[1]
        list(key) == SplitWhitespace(str(key))
    IN  [description |-> str("Description"),
         provides |-> list("Provides"),
         depends |-> list("Depends On"),
         conflicts |-> list("Conflicts With"),
         build_date |-> FieldOf(lines, "Build Date", None)]

\* an analysis in which the first variant override that applies is kept
AnalyzeFirstOverride(kernel, details) ==
    LET any(seq, pat) == \E i \in 1..Len(seq) : Contains(seq[i], pat)
        d1 == IF any(details.depends, "nvidia")
              THEN kernel.description \o " (Includes NVIDIA support)"
              ELSE kernel.description
        d2 == IF any(details.provides, "virtualbox-guest-modules")
              THEN d1 \o " (VirtualBox guest support)" ELSE d1
        v == IF any(details.conflicts, "linux-rt") THEN "Real-Time"
             ELSE IF Contains(to_lowercase(details.description), "hardened")
                     \/ any(details.provides, "hardened") THEN "Hardened"
             ELSE IF Contains(to_lowercase(details.description), "zen")
                     \/ any(details.provides, "zen") THEN "Zen"
             ELSE kernel.variant
        d3 == IF details.build_date # None
              THEN d2 \o " (Built: " \o details.build_date[1] \o ")" ELSE d2
    IN  [kernel EXCEPT !.description = d3, !.variant = v]

\* analyze_kernel_details
analyze_kernel_details(kernel, details) ==
    LET any(seq, pat) == \E i \in 1..Len(seq) : Contains(seq[i], pat)
        d1 == IF any(details.depends, "nvidia")
              THEN kernel.description \o " (Includes NVIDIA support)"
              ELSE kernel.description
        d2 == IF any(details.provides, "virtualbox-guest-modules")
              THEN d1 \o " (VirtualBox guest support)" ELSE d1
        v1 == IF any(details.conflicts, "linux-rt") THEN "Real-Time" ELSE kernel.variant
        v2 == IF Contains(to_lowercase(details.description), "hardened")
                 \/ any(details.provides, "hardened")
              THEN "Hardened" ELSE v1
        v3 == IF Contains(to_lowercase(details.description), "zen")
                 \/ any(details.provides, "zen")
              THEN "Zen" ELSE v2
        d3 == IF details.build_date # None
              THEN d2 \o " (Built: " \o details.build_date[1] \o ")" ELSE d2
    IN  [kernel EXCEPT !.description = d3, !.variant = v3]

\* DetailedKernelInfo::from_installed_pacman (mode "Qi") and ::from_pacman
\* (mode "Si"): the lines pacman prints for the package, None when pacman
\* cannot be run. db.runs: pacman can be run; db.Qi, db.Si: the packages each
\* query knows, as records [name, lines]; an unknown package prints nothing.
PacmanQuery(db, mode, name) ==
    IF ~db.runs THEN None
    ELSE LET table == IF mode = "Qi" THEN db.Qi ELSE db.Si IN
         IF \E i \in 1..Len(table) : table[i].name = name
         THEN Some(table[CHOOSE i \in 1..Len(table) : table[i].name = name].lines)
         ELSE Some(<<>>)

\* enhance_kernel_info
enhance_kernel_info(kernel, package_manager, db) ==
    IF package_manager = Some("pacman")
    THEN LET out == PacmanQuery(db, IF kernel.installed THEN "Qi" ELSE "Si", kernel.name) IN
         IF out = None THEN kernel
         ELSE LET details == from_pacman_output(out[1])
                  k1 == IF kernel.description = ""
                        THEN [kernel EXCEPT !.description = details.description]
                        ELSE kernel
              IN  analyze_kernel_details(k1, details)
    ELSE kernel

\* a listing in which every directory of /lib/modules counts as installed
ListAllInstalled(dir, current_kernel) ==
    IF dir = None THEN <<>>
    ELSE LET dirs == SelectSeq(dir[1], LAMBDA e : e.kind = "dir") IN
         [i \in 1..Len(dirs) |->
            [name |-> dirs[i].name,
             version |-> "",
             description |-> "",
             variant |-> detect_kernel_variant(dirs[i].name),
             installed |-> TRUE]]

\* run(): "List installed kernels". dir is None when read_dir fails, else the
\* entries of /lib/modules in directory order; kind is "dir", "file" or "err"
\* (the entry or its file type cannot be read)
ListInstalled(dir, current_kernel) ==
    IF dir = None THEN <<>>
    ELSE LET dirs == SelectSeq(dir[1], LAMBDA e : e.kind = "dir") IN
         [i \in 1..Len(dirs) |->
            [name |-> dirs[i].name,
             version |-> "",
             description |-> "",
             variant |-> detect_kernel_variant(dirs[i].name),
             installed |-> dirs[i].name = current_kernel]]

\* run(): available_kernel_infos
AvailableInfos(available_kernels, installed, package_manager, db) ==
    [i \in 1..Len(available_kernels) |->
        enhance_kernel_info(
            [name |-> available_kernels[i].name,
             version |-> available_kernels[i].version,
             description |-> available_kernels[i].description,
             variant |-> detect_kernel_variant(available_kernels[i].name),
             installed |-> \E j \in 1..Len(installed) :
                               installed[j].name = available_kernels[i].name],
            package_manager, db)]

RECURSIVE UnionAll(_, _)
\* a union that appends every available entry
UnionAll(all, infos) ==
    IF Len(infos) = 0 THEN all
    ELSE UnionAll(Append(all, infos[1]), Tail(infos))

RECURSIVE Union(_, _)
\* run(): the loop building all_kernels
Union(all, infos) ==
    IF Len(infos) = 0 THEN all
    ELSE IF ~\E j \in 1..Len(all) : all[j].name = infos[1].name
         THEN Union(Append(all, infos[1]), Tail(infos))
         ELSE Union(all, Tail(infos))

-----------------------------------------------------------------------------
(* Scoring, ranking, rendering *)

\* use_cases.iter().any(|c| c.to_lowercase().contains(one of pats))
AnyUseCase(use_cases, pats) ==
    \E i \in 1..Len(use_cases) : \E p \in pats : Contains(to_lowercase(use_cases[i]), p)

\* score_and_reason_kernel: prev_problematic.iter().any(|p| name.contains(p)),
\* name being the lower-cased candidate name
Problematic(name, prev_problematic) ==
    \E i \in 1..Len(prev_problematic) : Contains(name, prev_problematic[i])

WarnProblematic == "You previously marked this kernel as problematic."
WarnZen == "Zen kernel is known to cause overheating on AMD/Intel GPUs and laptops. CachyOS EEVDF LTO is preferred for your setup."
WarnRt == "RT kernel is not recommended unless you need low-latency audio/production."
WarnHardened == "Hardened kernel is not recommended unless you need extra security."
WarnNvidia == "Avoid Zen/RT/Hardened kernels with NVIDIA drivers. Use LTS or Standard."
ReasonEevdf == "CachyOS EEVDF is highly recommended for desktop/gaming/development on AMD/Intel GPUs due to its scheduler and thermal profile."
ReasonLts == "LTS kernel is preferred for server and battery life due to stability."
ReasonRt == "RT kernel is best for audio/production work."
ReasonHardened == "Hardened kernel is best for security-focused systems."
ReasonStandard == "Standard kernel is a safe choice for most users."
\* no text at all in place of the default reason
NoReason == ""
ReasonDefault == "No special advantages detected for your use case/hardware."
HeadersNote == "\nNOTE: For development/programming, kernel headers are required. If missing, install with your package manager."

\* a `warn` that keeps the warning of the first rule that fires
FirstWarn(r1, r2, r5n, r6n, r8) ==
    IF r1 THEN Some(WarnProblematic)
    ELSE IF r2 THEN Some(WarnZen)
    ELSE IF r5n THEN Some(WarnRt)
    ELSE IF r6n THEN Some(WarnHardened)
    ELSE IF r8 THEN Some(WarnNvidia)
    ELSE None

\* score_and_reason_kernel: the value of `warn` behind the rules, every rule
\* that fires assigning it (denylist, Zen, RT, Hardened, NVIDIA in this order)
LastWarn(r1, r2, r5n, r6n, r8) ==
    IF r8 THEN Some(WarnNvidia)
    ELSE IF r6n THEN Some(WarnHardened)
    ELSE IF r5n THEN Some(WarnRt)
    ELSE IF r2 THEN Some(WarnZen)
    ELSE IF r1 THEN Some(WarnProblematic)
    ELSE None

\* a `score` from which a denylisted candidate loses 100 instead of 10
ScoreSumBanned(r1, r2, r3, r4, r5p, r5n, r6p, r6n, r7, r8, r9) ==
    (IF r1 THEN -100 ELSE 0) + (IF r2 THEN -4 ELSE 0) + (IF r3 THEN 6 ELSE 0)
    + (IF r4 THEN 4 ELSE 0) + (IF r5p THEN 5 ELSE 0) + (IF r5n THEN -2 ELSE 0)
    + (IF r6p THEN 4 ELSE 0) + (IF r6n THEN -2 ELSE 0) + (IF r7 THEN 2 ELSE 0)
    + (IF r8 THEN -6 ELSE 0) + (IF r9 THEN 2 ELSE 0)

\* score_and_reason_kernel: the value of `score` behind the rules, every rule
\* that fires adding its amount to the initial 0
ScoreSum(r1, r2, r3, r4, r5p, r5n, r6p, r6n, r7, r8, r9) ==
    (IF r1 THEN -10 ELSE 0) + (IF r2 THEN -4 ELSE 0) + (IF r3 THEN 6 ELSE 0)
    + (IF r4 THEN 4 ELSE 0) + (IF r5p THEN 5 ELSE 0) + (IF r5n THEN -2 ELSE 0)
    + (IF r6p THEN 4 ELSE 0) + (IF r6n THEN -2 ELSE 0) + (IF r7 THEN 2 ELSE 0)
    + (IF r8 THEN -6 ELSE 0) + (IF r9 THEN 2 ELSE 0)

score_and_reason_kernel(k, use_cases, gpu_type, nvidia_, audio_, prev_problematic) ==
    LET name == to_lowercase(k.name)
        desc == to_lowercase(k.description)
        dev_selected == AnyUseCase(use_cases, {"dev", "programming"})
        amd_intel_gpu ==
            /\ gpu_type # None
            /\ LET g == to_lowercase(gpu_type[1]) IN
               Contains(g, "integrated") \/ Contains(g, "amd") \/ Contains(g, "intel")
        is_zen == Contains(name, "zen") \/ Contains(desc, "zen")
        is_eevdf == Contains(name, "eevdf") \/ Contains(desc, "eevdf")
        is_lts == Contains(name, "lts") \/ Contains(desc, "lts")
        is_rt == Contains(name, "rt") \/ Contains(desc, "rt")
        is_hardened == Contains(name, "hardened") \/ Contains(desc, "hardened")
        is_standard == name = "linux" \/ Contains(desc, "standard")
        r1 == Problematic(name, prev_problematic)
        r2 == is_zen /\ amd_intel_gpu
        r3 == is_eevdf /\ (dev_selected \/ AnyUseCase(use_cases, {"gaming", "desktop"}))
                       /\ amd_intel_gpu
        r4 == is_lts /\ AnyUseCase(use_cases, {"server", "battery"})
        r5p == is_rt /\ AnyUseCase(use_cases, {"audio"})
        r5n == is_rt /\ ~r5p
        r6p == is_hardened /\ AnyUseCase(use_cases, {"security"})
        r6n == is_hardened /\ ~r6p
        r7 == is_standard /\ AnyUseCase(use_cases, {"desktop", "server"})
        r8 == nvidia_ /\ (is_zen \/ is_rt \/ is_hardened)
        r9 == audio_ /\ is_rt
        score == ScoreSum(r1, r2, r3, r4, r5p, r5n, r6p, r6n, r7, r8, r9)
        reasons == (IF r3 THEN <<ReasonEevdf>> ELSE <<>>)
                   \o (IF r4 THEN <<ReasonLts>> ELSE <<>>)
                   \o (IF r5p THEN <<ReasonRt>> ELSE <<>>)
                   \o (IF r6p THEN <<ReasonHardened>> ELSE <<>>)
                   \o (IF r7 THEN <<ReasonStandard>> ELSE <<>>)
        warn == LastWarn(r1, r2, r5n, r6n, r8)
        s1 == Join(IF reasons = <<>> THEN <<ReasonDefault>> ELSE reasons, " ")
        s2 == IF warn # None THEN s1 \o " WARNING: " \o warn[1] ELSE s1
        s3 == IF dev_selected THEN s2 \o HeadersNote ELSE s2
    IN  [score |-> score, reason |-> s3]

\* run(): let prev_problematic: Vec<String> = vec![];
prev_problematic == <<>>

\* a scoring that lets the scorer see the variant, as part of the description
ScoreAllWithVariant(all, p, nvidia_, audio_) ==
    [i \in 1..Len(all) |->
        LET r == score_and_reason_kernel(
                     [name |-> all[i].name, version |-> all[i].version,
                      description |-> all[i].description \o " " \o all[i].variant,
                      _repo |-> ""],
                     p.use_cases, p.gpu_type, nvidia_, audio_, prev_problematic)
        IN  [kernel |-> all[i], score |-> r.score, reason |-> r.reason]]

\* run(): scored_kernels
ScoreAll(all, p, nvidia_, audio_) ==
    [i \in 1..Len(all) |->
        LET r == score_and_reason_kernel(
                     [name |-> all[i].name, version |-> all[i].version,
                      description |-> all[i].description, _repo |-> ""],
                     p.use_cases, p.gpu_type, nvidia_, audio_, prev_problematic)
        IN  [kernel |-> all[i], score |-> r.score, reason |-> r.reason]]

RECURSIVE InsertDesc(_, _)
\* x placed behind every element whose score is not lower than its own
InsertDesc(sorted, x) ==
    IF Len(sorted) = 0 THEN <<x>>
    ELSE IF sorted[1].score >= x.score
         THEN <<sorted[1]>> \o InsertDesc(Tail(sorted), x)
         ELSE <<x>> \o sorted

RECURSIVE SortLastFirst(_)
\* a descending sort that is not stable: among equal scores the later element
\* of the input comes first
SortLastFirst(seq) ==
    IF Len(seq) = 0 THEN <<>>
    ELSE LET rest == SortLastFirst(SubSeq(seq, 1, Len(seq) - 1))
             x == seq[Len(seq)]
             before == SelectSeq(rest, LAMBDA e : e.score > x.score)
             after == SelectSeq(rest, LAMBDA e : e.score <= x.score)
         IN  before \o <<x>> \o after

RECURSIVE SortDesc(_)
\* slice::sort_by(|a, b| b.1.cmp(&a.1)): stable, descending by score
SortDesc(seq) ==
    IF Len(seq) = 0 THEN <<>>
    ELSE InsertDesc(SortDesc(SubSeq(seq, 1, Len(seq) - 1)), seq[Len(seq)])

\* the number of recommendations run() prints
TopN == 3

\* a block that names the headers package in every install command
RenderWithHeaders(entry, package_manager, needs_headers_pkg) ==
    LET kernel == entry.kernel
        pkg_base == IF StartsWith(kernel.name, "linux-") THEN kernel.name
                    ELSE kernel_package_name(kernel.name)
    IN  [name |-> kernel.name,
         score |-> entry.score,
         variant |-> kernel.variant,
         reason |-> entry.reason,
         install |->
            IF package_manager # None /\ ~kernel.installed
            THEN Some("sudo " \o package_manager[1] \o " -S " \o pkg_base
                      \o " " \o pkg_base \o "-headers")
            ELSE None]

\* run(): the block printing one recommendation; install is the "Install:"
\* line, None when it is not printed
RenderOne(entry, package_manager, needs_headers_pkg) ==
    LET kernel == entry.kernel
        pkg_base == IF StartsWith(kernel.name, "linux-") THEN kernel.name
                    ELSE kernel_package_name(kernel.name)
    IN  [name |-> kernel.name,
         score |-> entry.score,
         variant |-> kernel.variant,
         reason |-> entry.reason,
         install |->
            IF package_manager # None /\ ~kernel.installed
            THEN IF needs_headers_pkg
                 THEN Some("sudo " \o package_manager[1] \o " -S " \o pkg_base
                           \o " " \o pkg_base \o "-headers")
                 ELSE Some("sudo " \o package_manager[1] \o " -S " \o pkg_base)
            ELSE None]

\* a render loop that prints the last entries of the list instead of the first
RenderLast(top, package_manager, use_cases) ==
    LET needs_headers_pkg == AnyUseCase(use_cases, {"dev", "server"})
        n == IF Len(top) < TopN THEN Len(top) ELSE TopN
    IN  [i \in 1..n |-> RenderOne(top[Len(top) - n + i], package_manager,
                                  needs_headers_pkg)]

\* run(): for ... in top_kernels.iter().take(3).enumerate()
RenderTop(top, package_manager, use_cases) ==
    LET needs_headers_pkg == AnyUseCase(use_cases, {"dev", "server"})
        n == IF Len(top) < TopN THEN Len(top) ELSE TopN
    IN  [i \in 1..n |-> RenderOne(top[i], package_manager, needs_headers_pkg)]

-----------------------------------------------------------------------------
(* What the environment can answer *)

RunningKernel == "6.6.10-1-MANJARO"

\* `uname -r`: None when the command cannot be run
UnameResults == {None, Some(RunningKernel \o "\n")}
UnameResultsWide == {None, Some(RunningKernel \o "\n"), Some("linux-lts\n")}

\* the package managers `which` resolves
PmSets == {{}, {"pacman"}}
PmSetsWide == {{}, {"pacman"}, {"apt", "emerge"}}

\* `lspci`: None when the command cannot be run
LspciResults == {None, Some("VGA: NVIDIA Audio"), Some("vga: amd radeon")}
LspciResultsWide == LspciResults \cup {Some("Audio: Intel")}

\* the marker tools `which` resolves
ToolSets == {{}, {"gcc", "steam"}}
ToolSetsWide == {{}, {"gcc", "steam"}, {"jackd", "nginx", "firejail"}}

\* `lsmod`: None when the command cannot be run
LsmodResults == {None, Some("nvidia_drm")}
LsmodResultsWide == {None, Some("nvidia_drm"), Some("amdgpu")}

SaveOutcomes == {"ok", "create_failed", "write_failed"}

\* Files a user can leave in place of the configuration between two runs
EditedDisks ==
    {DiskAbsent, DiskNoPerm, DiskBinary,
     DiskFile(TomlDoc(FALSE, None, Some("amd"), TRUE, <<"gaming">>, <<>>)),
     DiskFile(TomlDoc(TRUE, None, Some("nvidia"), FALSE, <<>>, <<>>)),
     DiskFile(TomlDoc(TRUE, None, None, TRUE, <<>>, <<"linux-zen">>)),
     DiskFile(TomlDoc(TRUE, Some("linux-lts"), Some("Intel"), TRUE, <<"server">>,
                      <<"MANJARO">>))}

DirEntry(name, kind) == [name |-> name, kind |-> kind]

\* read_dir("/lib/modules"): None when it fails
DirResults == {Some(<<DirEntry(RunningKernel, "dir")>>)}
DirResultsWide ==
    {None,
     Some(<<>>),
     Some(<<DirEntry(RunningKernel, "dir")>>),
     Some(<<DirEntry("linux-lts", "dir"), DirEntry(RunningKernel, "dir"),
            DirEntry("build.log", "file")>>),
     Some(<<DirEntry("linux-zen", "dir"), DirEntry("lost", "err"),
            DirEntry("linux-lts", "dir")>>)}

\* the available-kernel listing: the one run() holds, and others of the same
\* form (a repeated name, a line without repository, a line without version)
Listings == {pacman_output}
ListingsWide ==
    {pacman_output,
     << "system/linux-lts 6.12.32-1 The LTS Linux kernel and modules",
        "linux-orphan 1.0 no repository",
        "extra/linux-lts 6.12.30-1 [installed] The LTS Linux kernel and modules",
        "galaxy/linux-zen",
        "galaxy/linux-zen 6.15.2.zen1-1 The Linux ZEN kernel and modules" >>,
     <<>>}

PacmanDb(runs, qi, si) == [runs |-> runs, Qi |-> qi, Si |-> si]
PkgOut(name, lines) == [name |-> name, lines |-> lines]

\* what pacman answers to -Qi and -Si
Dbs == {PacmanDb(TRUE, <<>>, <<>>)}
DbsWide ==
    {PacmanDb(FALSE, <<>>, <<>>),
     PacmanDb(TRUE, <<>>, <<>>),
     PacmanDb(TRUE,
        << PkgOut(RunningKernel,
              << "Name            : linux",
                 "Description     : The Linux kernel and modules",
                 "Depends On      : coreutils nvidia-utils",
                 "Build Date      : Mon 02 Jun 2025 10:00:00" >>) >>,
        << PkgOut("linux-lts",
              << "Description     : The LTS Linux kernel, with zen patches",
                 "Provides        : VIRTUALBOX-GUEST-MODULES virtualbox-guest-modules",
                 "Conflicts With  : linux-rt-lts",
                 "error: no build date" >>),
           PkgOut("linux-zen",
              << "Description     : The Linux ZEN kernel and modules",
                 "Provides        : linux-hardened-compat",
                 "Conflicts With  : None" >>) >>),
     \* the repository describes `linux` in other words than run()'s listing
     PacmanDb(TRUE, <<>>,
        << PkgOut("linux",
              << "Description     : The Linux kernel and modules (Zen scheduler patches)",
                 "Provides        : KSMBD-MODULE WIREGUARD-MODULE" >>) >>)}

-----------------------------------------------------------------------------
(* State machine *)

HistInit ==
    [loaded |-> NephyraPrefsDefault,   \* what load_prefs returned
     denylist |-> <<>>,                \* problematic_kernels of the file read
     read |-> DiskAbsent,              \* the file load_prefs read
     save |-> "none",                  \* how save_prefs ended
     dir |-> None,                     \* what read_dir returned
     found |-> {},                     \* the marker tools `which` resolved
     loads |-> 0,                      \* calls of load_prefs in this invocation
     merges |-> 0,                     \* executions of the merge in this invocation
     saves |-> 0,                      \* calls of save_prefs in this invocation
     on_disk |-> DiskAbsent,           \* the file as save_prefs left it
     available |-> <<>>,               \* the local `available_kernels`
     sticky_gpu |-> None,              \* first non-null gpu_type a run loaded
     sticky_uc |-> <<>>,               \* first non-empty use_cases a run loaded
     sticky_run |-> 0,                 \* the run that loaded the first of them
     torn |-> FALSE,                   \* a write failed after the truncation
     seeded |-> None]                  \* what a run with no file detected and wrote

EvalInit == [called |-> FALSE]

\* the locals of run() before its first statement
LocalsInit ==
    /\ sysinfo = [current_kernel |-> "", package_manager |-> None]
    /\ prefs = NephyraPrefsDefault
    /\ detected_gpu = None
    /\ detected_use_cases = <<>>
    /\ nvidia = FALSE
    /\ audio = FALSE
    /\ installed_kernels = <<>>
    /\ all_kernels = <<>>
    /\ scored_kernels = <<>>
    /\ top_kernels = <<>>
    /\ output = <<>>

LocalsReset ==
    /\ sysinfo' = [current_kernel |-> "", package_manager |-> None]
    /\ prefs' = NephyraPrefsDefault
    /\ detected_gpu' = None
    /\ detected_use_cases' = <<>>
    /\ nvidia' = FALSE
    /\ audio' = FALSE
    /\ installed_kernels' = <<>>
    /\ all_kernels' = <<>>
    /\ scored_kernels' = <<>>
    /\ top_kernels' = <<>>
    /\ output' = <<>>

Init ==
    /\ run = 1
    /\ pc = "start"
    /\ disk = DiskAbsent
    /\ LocalsInit
    /\ hist = HistInit
    /\ eval = EvalInit

\* The user edits, replaces or deletes the configuration file between runs.
ExternalEdit ==
    /\ pc = "start"
    /\ \E d \in EditedDisks : d # disk /\ disk' = d
    /\ hist' = [hist EXCEPT !.sticky_gpu = None, !.sticky_uc = <<>>, !.sticky_run = 0,
                            !.torn = FALSE, !.seeded = None]
    /\ UNCHANGED <<run, pc, sysinfo, prefs, detected_gpu, detected_use_cases, nvidia,
                   audio, installed_kernels, all_kernels, scored_kernels,
                   top_kernels, output, eval>>

\* run(): let sysinfo = SystemInfo::gather();
Gather(unames, pmsets) ==
    /\ pc = "start"
    /\ \E uname \in unames, found \in pmsets :
          LET r == SystemInfoGather(uname, found) IN
          /\ sysinfo' = r.value
          /\ pc' = IF r.panicked THEN "panicked" ELSE "gathered"
    /\ UNCHANGED <<run, disk, prefs, detected_gpu, detected_use_cases, nvidia, audio,
                   installed_kernels, all_kernels, scored_kernels, top_kernels,
                   output, hist, eval>>

\* run(): let mut prefs = load_prefs();
Load ==
    /\ pc = "gathered"
    /\ prefs' = load_prefs(disk)
    /\ hist' = [hist EXCEPT
                  !.loaded = prefs',
                  !.loads = @ + 1,
                  !.read = disk,
                  !.denylist = IF disk.kind = "file" THEN disk.doc.problematic_kernels
                               ELSE <<>>,
                  !.sticky_gpu = IF @ = None THEN prefs'.gpu_type ELSE @,
                  !.sticky_uc = IF @ = <<>> THEN prefs'.use_cases ELSE @,
                  !.sticky_run = IF @ = 0 /\ (prefs'.gpu_type # None \/ prefs'.use_cases # <<>>)
                                 THEN run ELSE @]
    /\ pc' = "loaded"
    /\ UNCHANGED <<run, disk, sysinfo, detected_gpu, detected_use_cases, nvidia, audio,
                   installed_kernels, all_kernels, scored_kernels, top_kernels,
                   output, eval>>

\* run(): detect_gpu_type(), infer_use_cases(), detect_nvidia(), detect_audio_hw()
Detect(lspcis, toolsets, lsmods) ==
    /\ pc = "loaded"
    /\ \E lspci \in lspcis, found \in toolsets, lsmod \in lsmods :
          /\ detected_gpu' = detect_gpu_type(lspci)
          /\ detected_use_cases' = infer_use_cases(found)
          /\ nvidia' = detect_nvidia(lsmod)
          /\ audio' = detect_audio_hw(lspci)
          /\ hist' = [hist EXCEPT !.found = found]
    /\ pc' = "detected"
    /\ UNCHANGED <<run, disk, sysinfo, prefs, installed_kernels, all_kernels,
                   scored_kernels, top_kernels, output, eval>>

\* run(): the two `if prefs. ... ` assignments
MergeStep ==
    /\ pc = "detected"
    /\ prefs' = Merge(prefs, detected_gpu, detected_use_cases)
    /\ hist' = [hist EXCEPT !.merges = @ + 1]
    /\ pc' = "merged"
    /\ UNCHANGED <<run, disk, sysinfo, detected_gpu, detected_use_cases, nvidia, audio,
                   installed_kernels, all_kernels, scored_kernels, top_kernels,
                   output, eval>>

\* run(): save_prefs(&prefs);
Save(outcomes) ==
    /\ pc = "merged"
    /\ \E outcome \in outcomes :
         \E torn \in IF outcome = "write_failed" THEN TornDocs(prefs) ELSE {EmptyDoc} :
          LET r == save_prefs(disk, prefs, outcome, torn) IN
          /\ disk' = r.disk
          /\ pc' = IF r.panicked THEN "panicked" ELSE "saved"
          /\ hist' = [hist EXCEPT
                        !.save = outcome,
                        !.saves = @ + 1,
                        !.on_disk = r.disk,
                        !.torn = @ \/ outcome = "write_failed",
                        !.seeded = IF outcome = "ok" /\ hist.read.kind = "absent"
                                   THEN Some([gpu_type |-> detected_gpu,
                                              use_cases |-> detected_use_cases])
                                   ELSE None]
    /\ UNCHANGED <<run, sysinfo, prefs, detected_gpu, detected_use_cases, nvidia, audio,
                   installed_kernels, all_kernels, scored_kernels, top_kernels,
                   output, eval>>

\* run(): from "List installed kernels" to the loop building all_kernels
Catalog(dirs, listings, dbs) ==
    /\ pc = "saved"
    /\ \E dir \in dirs, listing \in listings, db \in dbs :
          LET listed == ListInstalled(dir, sysinfo.current_kernel)
              enhanced == [i \in 1..Len(listed) |->
                              enhance_kernel_info(listed[i], sysinfo.package_manager, db)]
              available_kernels == parse_pacman_kernel_list(listing)
              infos == AvailableInfos(available_kernels, enhanced,
                                      sysinfo.package_manager, db)
          IN  /\ installed_kernels' = enhanced
              /\ all_kernels' = Union(enhanced, infos)
              /\ hist' = [hist EXCEPT !.dir = dir, !.available = available_kernels]
    /\ pc' = "cataloged"
    /\ UNCHANGED <<run, disk, sysinfo, prefs, detected_gpu, detected_use_cases, nvidia,
                   audio, scored_kernels, top_kernels, output, eval>>

\* a scoring step that writes the preferences once more
ScoreAndSave ==
    /\ pc = "cataloged"
    /\ scored_kernels' = ScoreAll(all_kernels, prefs, nvidia, audio)
    /\ disk' = save_prefs(disk, prefs, "ok", EmptyDoc).disk
    /\ hist' = [hist EXCEPT !.saves = @ + 1]
    /\ pc' = "scored"
    /\ UNCHANGED <<run, sysinfo, prefs, detected_gpu, detected_use_cases, nvidia,
                   audio, installed_kernels, all_kernels, top_kernels, output, eval>>

\* run(): let scored_kernels = all_kernels.iter().map(...).collect();
Score ==
    /\ pc = "cataloged"
    /\ scored_kernels' = ScoreAll(all_kernels, prefs, nvidia, audio)
    /\ pc' = "scored"
    /\ UNCHANGED <<run, disk, sysinfo, prefs, detected_gpu, detected_use_cases, nvidia,
                   audio, installed_kernels, all_kernels, top_kernels, output, hist,
                   eval>>

\* run(): top_kernels.sort_by(...)
Rank ==
    /\ pc = "scored"
    /\ top_kernels' = SortDesc(scored_kernels)
    /\ pc' = "ranked"
    /\ UNCHANGED <<run, disk, sysinfo, prefs, detected_gpu, detected_use_cases, nvidia,
                   audio, installed_kernels, all_kernels, scored_kernels, output, hist,
                   eval>>

\* run(): the loop printing the recommendations; what run() prints after it
\* (headers package, init system, boot loader) changes nothing of this state
Render ==
    /\ pc = "ranked"
    /\ output' = RenderTop(top_kernels, sysinfo.package_manager, prefs.use_cases)
    /\ pc' = "done"
    /\ UNCHANGED <<run, disk, sysinfo, prefs, detected_gpu, detected_use_cases, nvidia,
                   audio, installed_kernels, all_kernels, scored_kernels, top_kernels,
                   hist, eval>>

\* The process ends (normally or by the panic) and the program is invoked again.
NextRun ==
    /\ pc \in {"done", "panicked"}
    /\ run < MaxRuns
    /\ run' = run + 1
    /\ pc' = "start"
    /\ LocalsReset
    /\ hist' = [hist EXCEPT !.loaded = NephyraPrefsDefault, !.denylist = <<>>,
                            !.read = DiskAbsent, !.save = "none", !.dir = None,
                            !.found = {}, !.loads = 0, !.merges = 0, !.saves = 0,
                            !.on_disk = DiskAbsent,
                            !.available = <<>>]
    /\ UNCHANGED <<disk, eval>>

\* Invocations of run() over the life of one configuration file.
Next ==
    \/ ExternalEdit
    \/ Gather(UnameResults, PmSets)
    \/ Load
    \/ Detect(LspciResults, ToolSets, LsmodResults)
    \/ MergeStep
    \/ Save(SaveOutcomes)
    \/ Catalog(DirResults, Listings, Dbs)
    \/ Score
    \/ Rank
    \/ Render
    \/ NextRun

Spec == Init /\ [][Next]_vars

\* One invocation of run() on a machine of any kind: every directory content,
\* listing and pacman answer of the wide sets.
NextOne ==
    \/ Gather(UnameResultsWide, PmSetsWide)
    \/ Load
    \/ Detect(LspciResultsWide, ToolSetsWide, LsmodResultsWide)
    \/ MergeStep
    \/ Save({"ok"})
    \/ Catalog(DirResultsWide, ListingsWide, DbsWide)
    \/ Score
    \/ Rank
    \/ Render

SpecOne == Init /\ [][NextOne]_vars

\* Calls of score_and_reason_kernel on candidates, contexts and denylists of
\* every kind.
ScoreCandidates ==
    {[name |-> "linux-zen", description |-> "The Linux ZEN kernel and modules"],
     [name |-> "linux", description |-> "The Linux kernel and modules"],
     [name |-> "linux-lts", description |-> "The LTS Linux kernel and modules"],
     [name |-> "linux-rt", description |-> "The Linux RT kernel and modules"],
     [name |-> "linux-hardened",
      description |-> "The Security-Hardened Linux kernel and modules"],
     [name |-> "linux-cachyos-eevdf-lto",
      description |-> "The Linux EEVDF scheduler + Cachy Sauce Kernel by CachyOS"],
     [name |-> "6.6.10-1-MANJARO", description |-> ""],
     [name |-> "Linux-Zen-RT", description |-> "Standard (Includes NVIDIA support)"],
     \* the entry of the listing as analyze_kernel_details annotates it
     [name |-> "linux-cachyos-eevdf-lto",
      description |-> "The Linux EEVDF scheduler + Cachy Sauce Kernel by CachyOS with other patches and improvements kernel and modules (VirtualBox guest support)"],
     \* names and descriptions on which many rules fire at once
     [name |-> "linux-zen-rt-hardened", description |-> ""],
     [name |-> "linux-lts-rt-hardened", description |-> "Standard EEVDF build"]}

ScoreUseCases ==
    {<<>>, <<"desktop">>, <<"gaming">>, <<"dev", "gaming">>,
     <<"desktop", "audio", "server", "security">>,
     <<"audio", "server", "security">>, <<"Programming", "battery">>}

ScoreGpuTypes == {None, Some("nvidia"), Some("amd"), Some("Intel")}

ScoreDenylists ==
    {<<>>, <<"linux-zen">>, <<"MANJARO">>, <<"hardened", "lts">>, <<"">>, <<"Linux">>}

ScoreCall ==
    /\ ~eval.called
    /\ \E c \in ScoreCandidates, uc \in ScoreUseCases, g \in ScoreGpuTypes,
          nv \in BOOLEAN, au \in BOOLEAN, prev \in ScoreDenylists :
          LET k == [name |-> c.name, version |-> "", description |-> c.description,
                    _repo |-> ""]
          IN  eval' = [called |-> TRUE, k |-> k, use_cases |-> uc, gpu_type |-> g,
                       nvidia |-> nv, audio |-> au, prev_problematic |-> prev,
                       result |-> score_and_reason_kernel(k, uc, g, nv, au, prev)]
    /\ UNCHANGED runVars

NextScore == ScoreCall

SpecScore == Init /\ [][NextScore]_vars

\* Calls of detect_kernel_variant on kernel names put together from pieces
\* with and without markers, in either case.
NameParts == {"linux", "6.1", "RT", "Real", "lts", "ZEN", "Hardened", "mainline", "Artix"}

KernelNames ==
    {Join(parts, "-") : parts \in UNION {[1..n -> NameParts] : n \in 1..MaxNameParts}}

VariantCall ==
    /\ ~eval.called
    /\ \E name \in KernelNames :
          eval' = [called |-> TRUE, name |-> name,
                   variant |-> detect_kernel_variant(name)]
    /\ UNCHANGED runVars

NextVariant == VariantCall

SpecVariant == Init /\ [][NextVariant]_vars

\* Calls of analyze_kernel_details on catalog entries and package details of
\* every kind.
AnalyzeKernels ==
    {[name |-> "linux-lts", version |-> "6.12.32-1",
      description |-> "The LTS Linux kernel and modules", variant |-> "LTS",
      installed |-> FALSE],
     [name |-> RunningKernel, version |-> "", description |-> "",
      variant |-> "Standard", installed |-> TRUE],
     [name |-> "linux-rt", version |-> "6.14.0.rt3.artix1-1",
      description |-> "The Linux RT kernel and modules", variant |-> "Real-Time",
      installed |-> FALSE]}

AnalyzeDetails ==
    [description : {"", "The Security-Hardened Linux kernel", "Hardened ZEN kernel"},
     provides : {<<>>, <<"virtualbox-guest-modules">>, <<"linux-hardened-compat">>,
                 <<"zen-modules", "virtualbox-guest-modules">>, <<"HARDENED">>},
     depends : {<<>>, <<"coreutils", "nvidia-utils">>},
     conflicts : {<<>>, <<"linux-rt-lts">>},
     build_date : {None, Some("Mon 02 Jun 2025 10:00:00")}]

AnalyzeCall ==
    /\ ~eval.called
    /\ \E kernel \in AnalyzeKernels, details \in AnalyzeDetails :
          eval' = [called |-> TRUE, kernel |-> kernel, details |-> details,
                   result |-> analyze_kernel_details(kernel, details)]
    /\ UNCHANGED runVars

NextAnalyze == AnalyzeCall

SpecAnalyze == Init /\ [][NextAnalyze]_vars

-----------------------------------------------------------------------------
(* Properties *)

AfterLoad == {"loaded", "detected", "merged", "saved", "cataloged", "scored", "ranked",
              "done"}
AfterMerge == {"merged", "saved", "cataloged", "scored", "ranked", "done"}
AfterSave == {"saved", "cataloged", "scored", "ranked", "done"}
AfterCatalog == {"cataloged", "scored", "ranked", "done"}

\* what the next run would load from the file as it is now
Persisted == load_prefs(disk)

\* the sticky value is what the run uses (prefs after the merge) and what the
\* file holds once the run has saved
StickyHolds ==
    /\ hist.sticky_gpu # None =>
          /\ pc \in AfterMerge => prefs.gpu_type = hist.sticky_gpu
          /\ pc \in AfterSave => Persisted.gpu_type = hist.sticky_gpu
    /\ hist.sticky_uc # <<>> =>
          /\ pc \in AfterMerge => prefs.use_cases = hist.sticky_uc
          /\ pc \in AfterSave => Persisted.use_cases = hist.sticky_uc

SeedWritten ==
    /\ disk.kind = "file"
    /\ from_str(disk.doc) =
          [ok |-> TRUE,
           value |-> [preferred_kernel |-> None,
                      gpu_type |-> detected_gpu,
                      use_cases |-> detected_use_cases]]

\* the run after a run that seeded the file has loaded the seeded values
SeedLoaded ==
    (pc \in {"loaded", "detected"} /\ hist.seeded # None) =>
        /\ prefs.gpu_type = hist.seeded[1].gpu_type
        /\ prefs.use_cases = hist.seeded[1].use_cases

\* C2 as stated: a run that finds no file writes a record holding the gpu_type
\* and use_cases it detected, and the next run loads these values.
C2_FirstRunSeeds ==
    /\ (pc \in AfterSave /\ hist.read.kind = "absent") => SeedWritten
    /\ SeedLoaded

\* C2, amended: a run that finds no file and whose save succeeds leaves a
\* record holding the gpu_type and use_cases it detected, and the next run
\* loads these values.
C2_FirstRunSeedsIfSaved ==
    /\ (pc \in AfterSave /\ hist.read.kind = "absent" /\ hist.save = "ok") => SeedWritten
    /\ SeedLoaded

\* the run after the seeding one has loaded the seeded values and detects others
C2_Witness ==
    /\ pc = "detected"
    /\ run > 1
    /\ hist.seeded # None
    /\ hist.seeded[1].gpu_type # None
    /\ prefs.gpu_type = hist.seeded[1].gpu_type
    /\ detected_gpu # None
    /\ detected_gpu # prefs.gpu_type
    /\ detected_use_cases # prefs.use_cases

\* C3: merging the merged record again with the same detection results changes
\* nothing.
C3_MergeIdempotent ==
    pc \in AfterMerge => Merge(prefs, detected_gpu, detected_use_cases) = prefs

\* the merge filled both fields
C3_Witness ==
    /\ pc = "merged"
    /\ hist.loaded.gpu_type = None
    /\ hist.loaded.use_cases = <<>>
    /\ prefs.gpu_type # None
    /\ prefs.use_cases # <<>>

\* the file load_prefs read was missing, unreadable or not parsable
Unusable(d) == d.kind # "file" \/ ~d.doc.valid \/ ~d.doc.has_use_cases

\* C4: for a missing, unreadable or unparsable file load_prefs returns the
\* zero-value record, and the run merges and saves as a run with no file does:
\* the record after the merge is the detected one.
C4_LoadNeverFails ==
    (pc \in AfterLoad /\ Unusable(hist.read)) =>
        /\ hist.loaded = NephyraPrefsDefault
        /\ pc \in AfterMerge =>
              prefs = [preferred_kernel |-> None, gpu_type |-> detected_gpu,
                       use_cases |-> detected_use_cases]
        /\ (pc \in AfterSave /\ hist.save = "ok") =>
              disk = save_prefs(DiskAbsent, Merge(load_prefs(DiskAbsent), detected_gpu,
                                                  detected_use_cases), "ok", EmptyDoc).disk

\* a file of malformed text that names a GPU and use cases was read, and the
\* run detected another GPU
C4_Witness ==
    /\ pc = "saved"
    /\ hist.read.kind = "file"
    /\ ~hist.read.doc.valid
    /\ hist.read.doc.gpu_type # None
    /\ detected_gpu # None
    /\ detected_gpu # hist.read.doc.gpu_type

\* C5 as stated: no failing probe aborts the run (a failing current-kernel
\* query yields "Unknown").
C5_NoProbeAborts == pc # "panicked"

\* C6: a save that fails returns normally; the run goes on with the merged
\* record and scores with its gpu_type and use_cases.
C6_SaveFailureSwallowed ==
    hist.save \in {"create_failed", "write_failed"} =>
        /\ pc \in AfterSave
        /\ prefs = Merge(hist.loaded, detected_gpu, detected_use_cases)
        /\ pc = "scored" =>
              scored_kernels =
                  ScoreAll(all_kernels,
                           Merge(hist.loaded, detected_gpu, detected_use_cases),
                           nvidia, audio)

\* the candidates were scored after a save that failed
C6_Witness ==
    /\ pc = "scored"
    /\ hist.save = "write_failed"
    /\ prefs.gpu_type # None
    /\ Len(scored_kernels) > 0

\* C7 as stated: a kernel the persisted record lists as problematic is scored
\* with the penalty in the run that loaded the record.
C7_DenylistFromStore ==
    pc = "scored" =>
        \A i \in 1..Len(scored_kernels) :
            scored_kernels[i].score =
                score_and_reason_kernel(
                    [name |-> all_kernels[i].name, version |-> all_kernels[i].version,
                     description |-> all_kernels[i].description, _repo |-> ""],
                    prefs.use_cases, prefs.gpu_type, nvidia, audio, hist.denylist).score

\* C8 as stated: a denylist entry that is a substring of the candidate's name
\* lowers the score by exactly 10 against the empty denylist.
C8_DenylistPenalty ==
    (/\ eval.called
     /\ \E j \in 1..Len(eval.prev_problematic) :
            Contains(eval.k.name, eval.prev_problematic[j])) =>
        eval.result.score =
            score_and_reason_kernel(eval.k, eval.use_cases, eval.gpu_type, eval.nvidia,
                                    eval.audio, <<>>).score - 10

\* C9: no two entries of the catalog have the same name.
C9_CatalogNamesUnique ==
    pc \in AfterCatalog =>
        \A i, j \in 1..Len(all_kernels) :
            all_kernels[i].name = all_kernels[j].name => i = j

\* the listing repeats a name, and a name of the listing is installed
C9_Witness ==
    /\ pc = "cataloged"
    /\ \E i, j \in 1..Len(hist.available) :
          i # j /\ hist.available[i].name = hist.available[j].name
    /\ \E i \in 1..Len(installed_kernels), j \in 1..Len(hist.available) :
          installed_kernels[i].name = hist.available[j].name

\* C10 as stated: a name enumerated as installed that is also in the listing
\* has exactly one entry, with installed = true, and every installed entry
\* precedes every entry that is only available.
C10_InstalledWins ==
    pc \in AfterCatalog =>
        /\ \A i \in 1..Len(installed_kernels) :
              (\E j \in 1..Len(hist.available) :
                   hist.available[j].name = installed_kernels[i].name) =>
                 /\ Cardinality({n \in 1..Len(all_kernels) :
                                    all_kernels[n].name = installed_kernels[i].name}) = 1
                 /\ \A n \in 1..Len(all_kernels) :
                       all_kernels[n].name = installed_kernels[i].name =>
                          all_kernels[n].installed
        /\ \A m, n \in 1..Len(all_kernels) :
              (/\ \E i \in 1..Len(installed_kernels) :
                      installed_kernels[i].name = all_kernels[n].name
               /\ ~\E i \in 1..Len(installed_kernels) :
                      installed_kernels[i].name = all_kernels[m].name) => n < m

-----------------------------------------------------------------------------
(* Ranking and rendering *)

AfterRank == {"ranked", "done"}

\* the position of a scored entry in the catalog order (names are unique)
CatalogPos(e) == CHOOSE n \in 1..Len(scored_kernels) : scored_kernels[n] = e

\* C11: the ranked list holds the scored candidates, each once, by score
\* descending, and candidates of equal score stand in their catalog order
\* (the entries of /lib/modules before the entries of the listing).
C11_StableDescendingSort ==
    pc \in AfterRank =>
        /\ Len(top_kernels) = Len(scored_kernels)
        /\ \A n \in 1..Len(scored_kernels) :
               \E i \in 1..Len(top_kernels) : top_kernels[i] = scored_kernels[n]
        /\ \A i, j \in 1..Len(top_kernels) :
               i < j =>
                 /\ top_kernels[i].score >= top_kernels[j].score
                 /\ top_kernels[i].score = top_kernels[j].score =>
                       /\ CatalogPos(top_kernels[i]) < CatalogPos(top_kernels[j])
                       /\ (\E m \in 1..Len(installed_kernels) :
                              installed_kernels[m].name = top_kernels[j].kernel.name)
                          => (\E m \in 1..Len(installed_kernels) :
                                installed_kernels[m].name = top_kernels[i].kernel.name)

\* a ranked list the sort had to reorder, with two candidates of equal score
C11_Witness ==
    /\ pc = "ranked"
    /\ top_kernels # scored_kernels
    /\ \E i, j \in 1..Len(top_kernels) :
          i < j /\ top_kernels[i].score = top_kernels[j].score

\* C12: the render loop prints min(3, catalog size) recommendations, the
\* i-th one being the i-th entry of the ranked list; no candidate left out has
\* a higher score than one that is printed.
C12_TopThreeRendered ==
    pc = "done" =>
        /\ Len(output) = (IF Len(all_kernels) < 3 THEN Len(all_kernels) ELSE 3)
        /\ \A i \in 1..Len(output) :
               /\ output[i].name = top_kernels[i].kernel.name
               /\ output[i].score = top_kernels[i].score
               /\ output[i].reason = top_kernels[i].reason
        /\ \A i \in 1..Len(output) :
               \A n \in 1..Len(scored_kernels) :
                  (\A j \in 1..Len(output) :
                      output[j].name # scored_kernels[n].kernel.name)
                  => scored_kernels[n].score <= output[i].score

\* more than three candidates, one of those left out scoring lower than one
\* of those printed
C12_Witness ==
    /\ pc = "done"
    /\ Len(top_kernels) > 3
    /\ Len(output) = 3
    /\ \E n \in 4..Len(top_kernels) : top_kernels[n].score < output[1].score

-----------------------------------------------------------------------------
(* The explanation and the warnings of one call of score_and_reason_kernel *)

\* the number of places of s at which p occurs
CountOcc(s, p) ==
    Cardinality({i \in 1..(Len(s) - Len(p) + 1) : SubSeq(s, i, i + Len(p) - 1) = p})

\* C13: the explanation score_and_reason_kernel returns is never empty.
C13_ExplanationNonEmpty == eval.called => Len(eval.result.reason) > 0

\* a call in which no rule gives a reason or a warning: the explanation is the
\* default reason alone
C13_Witness == eval.called /\ eval.result.reason = ReasonDefault

\* the candidate of the call carries the marker m in its name or description
Marked(m) ==
    \/ Contains(to_lowercase(eval.k.name), m)
    \/ Contains(to_lowercase(eval.k.description), m)

UseCase(pats) == AnyUseCase(eval.use_cases, pats)

AmdIntel ==
    /\ eval.gpu_type # None
    /\ \E g \in {"integrated", "amd", "intel"} :
          Contains(to_lowercase(eval.gpu_type[1]), g)

\* the warning rules that fire in the call, in rule order, each with its
\* warning and its penalty
FiredWarnings ==
       (IF Problematic(to_lowercase(eval.k.name), eval.prev_problematic)
        THEN <<[warning |-> WarnProblematic, penalty |-> 10]>> ELSE <<>>)
    \o (IF Marked("zen") /\ AmdIntel
        THEN <<[warning |-> WarnZen, penalty |-> 4]>> ELSE <<>>)
    \o (IF Marked("rt") /\ ~UseCase({"audio"})
        THEN <<[warning |-> WarnRt, penalty |-> 2]>> ELSE <<>>)
    \o (IF Marked("hardened") /\ ~UseCase({"security"})
        THEN <<[warning |-> WarnHardened, penalty |-> 2]>> ELSE <<>>)
    \o (IF eval.nvidia /\ (Marked("zen") \/ Marked("rt") \/ Marked("hardened"))
        THEN <<[warning |-> WarnNvidia, penalty |-> 6]>> ELSE <<>>)

\* what the rules without a warning add to the score in the call
Bonuses ==
      (IF Marked("eevdf") /\ UseCase({"dev", "programming", "gaming", "desktop"})
          /\ AmdIntel THEN 6 ELSE 0)
    + (IF Marked("lts") /\ UseCase({"server", "battery"}) THEN 4 ELSE 0)
    + (IF Marked("rt") /\ UseCase({"audio"}) THEN 5 ELSE 0)
    + (IF Marked("hardened") /\ UseCase({"security"}) THEN 4 ELSE 0)
    + (IF (to_lowercase(eval.k.name) = "linux" \/ Contains(to_lowercase(eval.k.description), "standard"))
          /\ UseCase({"desktop", "server"}) THEN 2 ELSE 0)
    + (IF eval.audio /\ Marked("rt") THEN 2 ELSE 0)

RECURSIVE SumPenalties(_)
SumPenalties(fired) ==
    IF Len(fired) = 0 THEN 0 ELSE fired[1].penalty + SumPenalties(Tail(fired))

\* C14: when several warning rules fire in one call, the explanation holds
\* exactly one "WARNING:" segment, it is the warning of the last rule that
\* fired and of no other, and the score carries the penalty of every rule
\* that fired.
C14_LastWarningWins ==
    (eval.called /\ Len(FiredWarnings) >= 2) =>
        LET fired == FiredWarnings
            last == fired[Len(fired)].warning
        IN  /\ CountOcc(eval.result.reason, "WARNING:") = 1
            /\ Contains(eval.result.reason, " WARNING: " \o last)
            /\ \A i \in 1..(Len(fired) - 1) :
                   ~Contains(eval.result.reason, fired[i].warning)
            /\ eval.result.score = Bonuses - SumPenalties(fired)

\* a call in which the denylist, the Zen and the NVIDIA rule fire at once
C14_Witness ==
    /\ eval.called
    /\ Len(FiredWarnings) >= 3
    /\ FiredWarnings[1].warning = WarnProblematic
    /\ FiredWarnings[2].warning = WarnZen
    /\ Contains(eval.result.reason, " WARNING: " \o WarnNvidia)

\* C15: with gpu_type "amd", use_cases ["gaming"], no NVIDIA driver and an
\* empty denylist, the candidate named linux-cachyos-eevdf-lto scores at least
\* 6 and its explanation contains "EEVDF", with and without audio hardware.
C15_EevdfScenario ==
    (/\ eval.called
     /\ eval.k.name = "linux-cachyos-eevdf-lto"
     /\ eval.gpu_type = Some("amd")
     /\ eval.use_cases = <<"gaming">>
     /\ ~eval.nvidia
     /\ eval.prev_problematic = <<>>)
    => /\ eval.result.score >= 6
       /\ Contains(eval.result.reason, "EEVDF")

-----------------------------------------------------------------------------
(* Scores and variants of the catalog of one run *)

AfterScore == {"scored", "ranked", "done"}

\* the candidate run() hands to score_and_reason_kernel for a catalog entry
Candidate(kernel) ==
    [name |-> kernel.name, version |-> kernel.version,
     description |-> kernel.description, _repo |-> ""]

\* C16: with the NVIDIA driver loaded, every candidate of variant Zen scores 6
\* less than the same candidate in the same context without the driver, and
\* its explanation contains "NVIDIA".
C16_NvidiaZenPenalty ==
    (pc \in AfterScore /\ nvidia) =>
        \A i \in 1..Len(scored_kernels) :
            scored_kernels[i].kernel.variant = "Zen" =>
                /\ scored_kernels[i].score =
                       score_and_reason_kernel(Candidate(scored_kernels[i].kernel),
                           prefs.use_cases, prefs.gpu_type, FALSE, audio,
                           prev_problematic).score - 6
                /\ Contains(scored_kernels[i].reason, "NVIDIA")

-----------------------------------------------------------------------------
(* Use-case inference *)

AfterDetect == {"detected", "merged", "saved", "cataloged", "scored", "ranked", "done"}

\* C17: the inferred use cases are never empty, and when the loaded record
\* has no use case and no marker tool is found, the merged use_cases is
\* exactly ["desktop"].
C17_DesktopDefault ==
    /\ pc \in AfterDetect => detected_use_cases # <<>>
    /\ (pc \in AfterMerge /\ hist.loaded.use_cases = <<>>
           /\ hist.found \cap MarkerTools = {})
       => prefs.use_cases = <<"desktop">>

\* a run that loaded a record without use cases, found no marker tool and has
\* merged
C17_Witness ==
    /\ pc = "merged"
    /\ hist.loaded.use_cases = <<>>
    /\ hist.found = {}
    /\ prefs.use_cases = <<"desktop">>

-----------------------------------------------------------------------------
(* Install commands *)

\* the kernel has a directory of its own under /lib/modules
OnMachine(name) ==
    /\ hist.dir # None
    /\ \E n \in 1..Len(hist.dir[1]) :
          hist.dir[1][n].kind = "dir" /\ hist.dir[1][n].name = name

\* C18: an install command is printed for a recommendation exactly when the
\* candidate is not installed and a package manager was detected; none is
\* printed for a kernel that is installed on the machine.
C18_InstallOnlyIfNotInstalled ==
    pc = "done" =>
        \A i \in 1..Len(output) :
            /\ output[i].install # None
                  <=> (~top_kernels[i].kernel.installed /\ sysinfo.package_manager # None)
            /\ OnMachine(output[i].name) => output[i].install = None

-----------------------------------------------------------------------------
(* Variant detection *)

\* the classes in priority order, each with its markers
VariantClasses ==
    << [class |-> "Real-Time", markers |-> {"rt", "real"}],
       [class |-> "LTS", markers |-> {"lts"}],
       [class |-> "Zen", markers |-> {"zen"}],
       [class |-> "Hardened", markers |-> {"hardened"}],
       [class |-> "Mainline", markers |-> {"mainline"}] >>

\* the classes one of whose markers occurs in the name, letter case ignored
ClassesOf(name) ==
    {c \in 1..Len(VariantClasses) :
        \E m \in VariantClasses[c].markers : Contains(to_lowercase(name), m)}

\* C19: detect_kernel_variant returns the first class, in the order real-time
\* > lts > zen > hardened > mainline, one of whose markers occurs in the name
\* whatever its letter case, and Standard when no marker occurs.
C19_VariantPriority ==
    eval.called =>
        LET hits == ClassesOf(eval.name) IN
        eval.variant =
            IF hits = {} THEN "Standard"
            ELSE VariantClasses[CHOOSE c \in hits : \A d \in hits : c <= d].class

\* a name with an upper-case real-time marker and the LTS marker
C19_Witness ==
    /\ eval.called
    /\ Contains(eval.name, "RT")
    /\ Contains(eval.name, "lts")
    /\ eval.variant = "Real-Time"

-----------------------------------------------------------------------------
(* The RealTime rule *)

\* C20: the RealTime rule follows the variant alone: the RT reason stands in
\* the explanation of a candidate exactly when its variant is Real-Time and
\* the use cases contain "audio", and the RT warning stands there only when
\* its variant is Real-Time and they do not.
C20_RtRuleByVariant ==
    pc \in AfterScore =>
        \A i \in 1..Len(scored_kernels) :
            LET rt == scored_kernels[i].kernel.variant = "Real-Time"
                wanted == AnyUseCase(prefs.use_cases, {"audio"})
            IN  /\ Contains(scored_kernels[i].reason, ReasonRt) <=> (rt /\ wanted)
                /\ Contains(scored_kernels[i].reason, WarnRt) => (rt /\ ~wanted)

-----------------------------------------------------------------------------
(* The Standard rule *)

\* C21: with use cases that include "desktop" or "server", the "safe choice"
\* reason stands in the explanation of a candidate exactly when its variant
\* is Standard; with other use cases it stands in none.
C21_StandardRuleByVariant ==
    pc \in AfterScore =>
        \A i \in 1..Len(scored_kernels) :
            Contains(scored_kernels[i].reason, ReasonStandard)
              <=> /\ scored_kernels[i].kernel.variant = "Standard"
                  /\ AnyUseCase(prefs.use_cases, {"desktop", "server"})

-----------------------------------------------------------------------------
(* Layout of the explanation *)

\* the reasons of the rules that fire in the call, in rule order
FiredReasons ==
       (IF Marked("eevdf") /\ UseCase({"dev", "programming", "gaming", "desktop"})
           /\ AmdIntel THEN <<ReasonEevdf>> ELSE <<>>)
    \o (IF Marked("lts") /\ UseCase({"server", "battery"}) THEN <<ReasonLts>> ELSE <<>>)
    \o (IF Marked("rt") /\ UseCase({"audio"}) THEN <<ReasonRt>> ELSE <<>>)
    \o (IF Marked("hardened") /\ UseCase({"security"}) THEN <<ReasonHardened>> ELSE <<>>)
    \o (IF (to_lowercase(eval.k.name) = "linux"
              \/ Contains(to_lowercase(eval.k.description), "standard"))
           /\ UseCase({"desktop", "server"}) THEN <<ReasonStandard>> ELSE <<>>)

RECURSIVE Spaced(_)
\* the texts one behind the other, a blank between two of them
Spaced(texts) ==
    IF Len(texts) = 1 THEN texts[1]
    ELSE texts[1] \o " " \o Spaced(Tail(texts))

\* the explanation laid out as reasons, warning, headers note
Layout(headers) ==
    Spaced(IF FiredReasons = <<>> THEN <<ReasonDefault>> ELSE FiredReasons)
    \o (IF FiredWarnings # <<>>
        THEN " WARNING: " \o FiredWarnings[Len(FiredWarnings)].warning ELSE "")
    \o (IF headers THEN HeadersNote ELSE "")

\* C22 as stated: the explanation is the reasons, then the warning iff a
\* warning rule fired, then the headers note iff a use case contains "dev";
\* the headers note adds nothing to the score.
C22_LayoutHeadersIffDev ==
    eval.called =>
        /\ eval.result.reason = Layout(UseCase({"dev"}))
        /\ eval.result.score = Bonuses - SumPenalties(FiredWarnings)

\* C22 amended: the same layout, the headers note standing there iff a use
\* case contains "dev" or "programming".
C22_LayoutHeadersIffDevOrProgramming ==
    eval.called =>
        /\ eval.result.reason = Layout(UseCase({"dev", "programming"}))
        /\ eval.result.score = Bonuses - SumPenalties(FiredWarnings)

\* a call with two reasons, a warning and the headers note for the use case
\* "Programming"
C22_Witness ==
    /\ eval.called
    /\ Len(FiredReasons) >= 2
    /\ FiredWarnings # <<>>
    /\ ~UseCase({"dev"})
    /\ UseCase({"programming"})
    /\ Contains(eval.result.reason, HeadersNote)

-----------------------------------------------------------------------------
(* Range of the score *)

\* the i32 range of `score`
I32Min == -2147483647 - 1
I32Max == 2147483647

\* C27: the score of every call lies between -24 and 23, far inside the
\* range of i32.
C27_ScoreBounded ==
    eval.called =>
        /\ eval.result.score >= -24
        /\ eval.result.score <= 23
        /\ I32Min < -24
        /\ 23 < I32Max

\* a call in which every penalty applies and no bonus does: the score is -24
C27_Witness ==
    /\ eval.called
    /\ Len(FiredWarnings) = 5
    /\ Bonuses = 0
    /\ eval.result.score = -24

\* a call in which every bonus applies and no penalty does: the score is 23
AllBonuses ==
    /\ eval.called
    /\ FiredWarnings = <<>>
    /\ eval.result.score = 23

-----------------------------------------------------------------------------
(* Enhancement *)

\* one of the words holds the pattern
Mentions(words, pat) == \E i \in 1..Len(words) : Contains(words[i], pat)

\* the variant overrides that apply in the call, in the order RealTime,
\* Hardened, Zen
Overrides ==
       (IF Mentions(eval.details.conflicts, "linux-rt") THEN <<"Real-Time">> ELSE <<>>)
    \o (IF Contains(to_lowercase(eval.details.description), "hardened")
           \/ Mentions(eval.details.provides, "hardened")
        THEN <<"Hardened">> ELSE <<>>)
    \o (IF Contains(to_lowercase(eval.details.description), "zen")
           \/ Mentions(eval.details.provides, "zen")
        THEN <<"Zen">> ELSE <<>>)

\* the annotations of the call, in the order NVIDIA, VirtualBox, build date
Annotations ==
       (IF Mentions(eval.details.depends, "nvidia")
        THEN " (Includes NVIDIA support)" ELSE "")
    \o (IF Mentions(eval.details.provides, "virtualbox-guest-modules")
        THEN " (VirtualBox guest support)" ELSE "")
    \o (IF eval.details.build_date # None
        THEN " (Built: " \o eval.details.build_date[1] \o ")" ELSE "")

\* C23: the variant behind analyze_kernel_details is that of the last
\* override that applies, in the order RealTime, Hardened, Zen (the variant
\* is kept when none applies), and the description is the former one with
\* every annotation that applies appended, in the order NVIDIA, VirtualBox,
\* build date.
C23_OverridesLastWriteWins ==
    eval.called =>
        /\ eval.result.variant =
              IF Overrides = <<>> THEN eval.kernel.variant
              ELSE Overrides[Len(Overrides)]
        /\ eval.result.description = eval.kernel.description \o Annotations

\* a call in which the three overrides and the three annotations apply
C23_Witness ==
    /\ eval.called
    /\ Len(Overrides) = 3
    /\ Mentions(eval.details.depends, "nvidia")
    /\ Mentions(eval.details.provides, "virtualbox-guest-modules")
    /\ eval.details.build_date # None
    /\ eval.result.variant = "Zen"

-----------------------------------------------------------------------------
(* Order of one invocation *)

-----------------------------------------------------------------------------
(* A record without use_cases *)

\* the file the invocation read is well-formed, sets gpu_type and has no
\* use_cases key
GpuOnlyRecord ==
    /\ hist.read.kind = "file"
    /\ hist.read.doc.valid
    /\ ~hist.read.doc.has_use_cases
    /\ hist.read.doc.gpu_type # None

\* C25: from a well-formed record that sets gpu_type and has no use_cases
\* key, load_prefs returns the stored gpu_type with empty use_cases; the
\* merged record of that invocation keeps the stored gpu_type, and a
\* successful save writes it back.
C25_MissingFieldDefaultsAlone ==
    (pc \in AfterLoad /\ GpuOnlyRecord) =>
        /\ hist.loaded.gpu_type = hist.read.doc.gpu_type
        /\ hist.loaded.use_cases = <<>>
        /\ pc \in AfterMerge => prefs.gpu_type = hist.read.doc.gpu_type
        /\ (pc \in AfterSave /\ hist.save = "ok")
              => (disk.kind = "file" /\ disk.doc.gpu_type = hist.read.doc.gpu_type)

-----------------------------------------------------------------------------
(* The packages of an install command *)

\* the base package of a kernel: its name when it starts with "linux-", else
\* "linux-" and the name from its first letter on
BasePackage(name) ==
    IF StartsWith(name, "linux-") THEN name ELSE kernel_package_name(name)

-----------------------------------------------------------------------------
(* The variant and the score *)

Variants == {"Standard", "LTS", "Zen", "Real-Time", "Hardened", "Mainline"}

\* C28: a catalog entry scores the same and gets the same explanation
\* whatever its variant is: the entry as it is and the entry with any other
\* variant, name and description equal, in the context of the run.
C28_VariantNotScored ==
    pc \in AfterScore =>
        \A i \in 1..Len(scored_kernels) :
            \A v \in Variants :
                LET other == [scored_kernels[i].kernel EXCEPT !.variant = v]
                    r == ScoreAll(<<other>>, prefs, nvidia, audio)[1]
                IN  /\ r.score = scored_kernels[i].score
                    /\ r.reason = scored_kernels[i].reason

\* a scored entry whose variant the enhancement forced: it is not the class of
\* its name, and the NVIDIA rule has not fired for it though the driver is
\* loaded
C28_Witness ==
    /\ pc = "scored"
    /\ nvidia
    /\ \E i \in 1..Len(scored_kernels) :
          /\ scored_kernels[i].kernel.variant = "Zen"
          /\ detect_kernel_variant(scored_kernels[i].kernel.name) = "Standard"
          /\ ~Contains(scored_kernels[i].reason, WarnNvidia)

-----------------------------------------------------------------------------
(* The annotations and the score *)

\* what analyze_kernel_details appends to a description
AnnotationTexts ==
    {" (Includes NVIDIA support)", " (VirtualBox guest support)",
     " (Built: Mon 02 Jun 2025 10:00:00)"}

Warnings == {WarnProblematic, WarnZen, WarnRt, WarnHardened, WarnNvidia}

\* C29: the candidate of a call, with an annotation appended to its
\* description, gets the score and the warning of the call in the same
\* context.
C29_AnnotationsScoreNeutral ==
    eval.called =>
        \A a \in AnnotationTexts :
            LET annotated == [eval.k EXCEPT !.description = @ \o a]
                r == score_and_reason_kernel(annotated, eval.use_cases, eval.gpu_type,
                                             eval.nvidia, eval.audio,
                                             eval.prev_problematic)
            IN  /\ r.score = eval.result.score
                /\ \A w \in Warnings :
                       Contains(r.reason, w) <=> Contains(eval.result.reason, w)

-----------------------------------------------------------------------------
(* The installed flag in the catalog *)

\* C30: at most one entry of the catalog has installed = true, its name is
\* the running kernel's release, and the entries taken from the listing (they
\* stand behind the entries of /lib/modules) have installed = false.
C30_OnlyRunningKernelInstalled ==
    pc \in AfterCatalog =>
        /\ \A n, m \in 1..Len(all_kernels) :
               (all_kernels[n].installed /\ all_kernels[m].installed) => n = m
        /\ \A n \in 1..Len(all_kernels) :
               all_kernels[n].installed => all_kernels[n].name = sysinfo.current_kernel
        /\ \A n \in (Len(installed_kernels) + 1)..Len(all_kernels) :
               ~all_kernels[n].installed

\* the running kernel is in /lib/modules next to another kernel, which the
\* listing holds as well, and the catalog has entries of the listing
C30_Witness ==
    /\ pc = "cataloged"
    /\ Len(installed_kernels) >= 2
    /\ Len(all_kernels) > Len(installed_kernels)
    /\ \E n \in 1..Len(installed_kernels) : all_kernels[n].installed
    /\ \E n \in 1..Len(installed_kernels) :
          /\ ~all_kernels[n].installed
          /\ \E a \in 1..Len(hist.available) :
                 hist.available[a].name = all_kernels[n].name

====
